---- MODULE Spec2Model ----
(***************************************************************************)
(* The signaling relay of the screen-sharing application: the room         *)
(* registry `rooms`, the peer index `peers` and the Socket.IO handlers     *)
(* registered per connection, plus the periodic cleanup sweep.             *)
(* Each handler runs to completion on the Node.js event loop, so each is   *)
(* one atomic action.                                                      *)
(***************************************************************************)
EXTENDS Integers, Sequences, FiniteSets, TLC

\* ------------------------------------------------------------------ bounds
\* Number of connections the relay accepts in a run.
MaxConns == 2

\* ------------------------------------------------------------- constants
\* const ONE_HOUR = 60 * 60 * 1000
ONE_HOUR == 60 * 60 * 1000

\* room.viewer of a room nobody has joined
Null == 0

\* socket.id values; a fresh id is handed out per connection
Sockets == 1 .. MaxConns

\* The three Math.random() results of one call of generateSharingCode, in
\* thousandths: all draws lowest, all draws highest.
Draws == {<<0, 0, 0>>, <<999, 999, 999>>}

\* Math.floor(Math.random() * 900 + 100)
Part(r) == (r * 900) \div 1000 + 100

\* `${part1}-${part2}-${part3}`, kept as the triple of its parts; the keys of
\* `rooms` are never consulted.
generateSharingCode(r) == <<Part(r[1]), Part(r[2]), Part(r[3])>>

\* The codes a join-room request may carry.
Codes == {generateSharingCode(r) : r \in Draws}

\* the code field of an event that carries no code
NoCode == <<>>

\* The opaque payloads (a descriptor, a candidate) a client may send.
Payloads == {"payload-a", "payload-b"}

\* The readings of Date.now() the handlers are given (milliseconds since the
\* relay started): the start, the end of the retention window, and one
\* millisecond after each.
Times == {0, 1, ONE_HOUR, ONE_HOUR + 1}

VARIABLES
    rooms,    \* Map code -> {host, viewer, createdAt}
    peers,    \* Map socket.id -> {code, role}
    open,     \* the connected sockets (their handlers are registered)
    nextId,   \* the id the next connection gets
    now,      \* the last value read from Date.now()
    req,      \* the event the last handler served
    reply,    \* what the last handler passed to its callback
    emitted   \* what the last handler emitted, in program order

\* The state of the relay.
relayVars == <<rooms, peers, open, nextId, now, req, reply, emitted>>

\* The state of one participant's page (src/app.js) that the control
\* transport reads or writes.
VARIABLES
    role,                  \* null, 'host' or 'viewer'
    isConnected,           \* set when the peer connection reports 'connected'
    peerConnection,        \* TRUE iff peerConnection is not null
    dataChannel,           \* "null", or the readyState of the channel it holds
    remoteVideo,           \* TRUE iff #remoteVideo is in the document
    remoteControlToggle,   \* TRUE iff #remoteControlToggle is in the document
    remoteControlEnabled,
    eventBatchQueue,       \* the queued coalescable events, oldest first
    eventBatchInterval,    \* TRUE iff the flush timer is set
    mouseListeners,        \* TRUE iff #remoteVideo carries the mouse handlers
    keyListeners,          \* TRUE iff document carries the key handlers
    nextSeq,               \* number of the next coalescable event captured
    did,                   \* the page handler that ran last
    sent,                  \* what that handler passed to dataChannel.send
    sdp,                   \* the descriptor text last given to optimizeSDPForLatency
    modifiedSdp,           \* what optimizeSDPForLatency returned for it
    localStream,           \* TRUE iff localStream is not null
    statsInterval,         \* TRUE iff the statistics timer is set
    currentCode,           \* "null" or "code"
    remotePeerId,          \* Null or the counterpart's socket id
    peerConnections,       \* RTCPeerConnection objects created and not closed
    hasTracks,             \* TRUE iff peerConnection got the local tracks
    remoteDescription,     \* TRUE iff peerConnection has a remote description
    capturePending,        \* TRUE iff startScreenSharing awaits getDisplayMedia
    negotiation,           \* the handler awaiting the peer connection, or "none"
    candidatesReceived,    \* well-formed candidates received since the last teardown
    candidatesApplied,     \* those addIceCandidate accepted
    socketEmitted,         \* what the last handler emitted to the relay
    roomsVacant,           \* rooms the relay holds with this page as host and no viewer
    roomsOccupied,         \* rooms the relay holds with this page as host and a viewer
    joined                 \* TRUE iff a room of the relay records this page as viewer

pageVars == <<role, isConnected, peerConnection, dataChannel, remoteVideo, remoteControlToggle>>
controlVars == <<remoteControlEnabled, eventBatchQueue, eventBatchInterval,
                 mouseListeners, keyListeners, nextSeq>>
sdpVars == <<sdp, modifiedSdp>>
sessionVars == <<localStream, statsInterval, currentCode, remotePeerId, peerConnections,
                 hasTracks, remoteDescription, capturePending, negotiation,
                 candidatesReceived, candidatesApplied>>
relayView == <<roomsVacant, roomsOccupied, joined>>
clientVars == <<pageVars, controlVars, sdpVars, sessionVars, relayView, socketEmitted, did, sent>>

vars == <<relayVars, clientVars>>

\* ------------------------------------------------------------- helpers
NoReply == [kind |-> "none", success |-> FALSE, message |-> "", code |-> NoCode, hostId |-> 0]
Failure(msg) == [kind |-> "callback", success |-> FALSE, message |-> msg, code |-> NoCode, hostId |-> 0]
CodeReply(c) == [kind |-> "callback", success |-> TRUE, message |-> "", code |-> c, hostId |-> 0]
HostReply(h) == [kind |-> "callback", success |-> TRUE, message |-> "", code |-> NoCode, hostId |-> h]

\* io.to(id).emit(ev, arg)
Emit(id, ev, arg) == [to |-> id, ev |-> ev, arg |-> arg]

Request(op, s, c) == [op |-> op, conn |-> s, code |-> c]

\* an offer / answer / ice-candidate event: data.to and the payload it carries
Signal(op, s, to, payload) ==
    [op |-> op, conn |-> s, code |-> NoCode, to |-> to, payload |-> payload]

\* rooms.has(code)
HasRoom(c) == c \in DOMAIN rooms
\* peers.has(id)
HasPeer(s) == s \in DOMAIN peers

\* rooms.set(code, room) / peers.set(id, rec) / map.delete(key)
MapSet(m, k, v) == [x \in DOMAIN m \cup {k} |-> IF x = k THEN v ELSE m[x]]
MapDelete(m, k) == [x \in DOMAIN m \ {k} |-> m[x]]

\* the closed connections
Closed == (1 .. (nextId - 1)) \ open

\* the handler that ran last on the page, and the key it was given if any
Did(op, key) == [op |-> op, key |-> key]
NoKey == [key |-> "", ctrlKey |-> FALSE]

\* ---------------------------------------------------------------- Init
\* The page after the script has loaded.
ClientInit ==
    /\ role = "null"
    /\ isConnected = FALSE
    /\ peerConnection = FALSE
    /\ dataChannel = "null"
    /\ remoteVideo = FALSE
    /\ remoteControlToggle = FALSE
    /\ remoteControlEnabled = FALSE
    /\ eventBatchQueue = <<>>
    /\ eventBatchInterval = FALSE
    /\ mouseListeners = FALSE
    /\ keyListeners = FALSE
    /\ nextSeq = 1
    /\ did = Did("load", NoKey)
    /\ sent = <<>>
    /\ sdp = <<>>
    /\ modifiedSdp = <<>>
    /\ localStream = FALSE
    /\ statsInterval = FALSE
    /\ currentCode = "null"
    /\ remotePeerId = Null
    /\ peerConnections = 0
    /\ hasTracks = FALSE
    /\ remoteDescription = FALSE
    /\ capturePending = FALSE
    /\ negotiation = "none"
    /\ candidatesReceived = {}
    /\ candidatesApplied = {}
    /\ socketEmitted = <<>>
    /\ roomsVacant = 0
    /\ roomsOccupied = 0
    /\ joined = FALSE

Init ==
    /\ ClientInit
    /\ rooms = <<>>
    /\ peers = <<>>
    /\ open = {}
    /\ nextId = 1
    /\ now = 0
    /\ req = Request("init", 0, NoCode)
    /\ reply = NoReply
    /\ emitted = <<>>

\* ------------------------------------------------------------- actions
\* io.on('connection'): a socket with a fresh id gets its handlers.
Connection ==
    /\ nextId <= MaxConns
    /\ open' = open \cup {nextId}
    /\ nextId' = nextId + 1
    /\ req' = Request("connection", nextId, NoCode)
    /\ reply' = NoReply
    /\ emitted' = <<>>
    /\ UNCHANGED <<rooms, peers, now>>

\* socket.on('generate-code'): t is the reading of Date.now(), which never runs
\* backwards, r the random draws of generateSharingCode().
GenerateCode(s, r, t) ==
    /\ s \in open
    /\ t >= now
    /\ now' = t
    /\ LET code == generateSharingCode(r) IN
         /\ rooms' = MapSet(rooms, code, [host |-> s, viewer |-> Null, createdAt |-> now'])
         /\ peers' = MapSet(peers, s, [code |-> code, role |-> "host"])
         /\ req' = Request("generate-code", s, code)
         /\ reply' = CodeReply(code)
    /\ emitted' = <<>>
    /\ UNCHANGED <<open, nextId>>

\* join-room with peers.set moved above the two checks: a rejected request
\* still binds the requester.
JoinRoomBindsFirst(s, c) ==
    /\ s \in open
    /\ req' = Request("join-room", s, c)
    /\ peers' = MapSet(peers, s, [code |-> c, role |-> "viewer"])
    /\ IF ~HasRoom(c)
         THEN /\ reply' = Failure("Invalid sharing code")
              /\ emitted' = <<>>
              /\ UNCHANGED rooms
       ELSE IF rooms[c].viewer # Null
         THEN /\ reply' = Failure("Room is full")
              /\ emitted' = <<>>
              /\ UNCHANGED rooms
       ELSE   /\ rooms' = [rooms EXCEPT ![c].viewer = s]
              /\ emitted' = <<Emit(rooms[c].host, "viewer-joined", s)>>
              /\ reply' = HostReply(rooms[c].host)
    /\ UNCHANGED <<open, nextId, now>>

\* join-room without the `if (room.viewer)` check: the last joiner takes the slot.
JoinRoomLastWins(s, c) ==
    /\ s \in open
    /\ req' = Request("join-room", s, c)
    /\ IF ~HasRoom(c)
         THEN /\ reply' = Failure("Invalid sharing code")
              /\ emitted' = <<>>
              /\ UNCHANGED <<rooms, peers>>
       ELSE   /\ rooms' = [rooms EXCEPT ![c].viewer = s]
              /\ peers' = MapSet(peers, s, [code |-> c, role |-> "viewer"])
              /\ emitted' = <<Emit(rooms[c].host, "viewer-joined", s)>>
              /\ reply' = HostReply(rooms[c].host)
    /\ UNCHANGED <<open, nextId, now>>

\* join-room with the emit moved above the two checks: the host is told of a
\* viewer that is then refused.
JoinRoomNotifiesFirst(s, c) ==
    /\ s \in open
    /\ req' = Request("join-room", s, c)
    /\ IF ~HasRoom(c)
         THEN /\ reply' = Failure("Invalid sharing code")
              /\ emitted' = <<>>
              /\ UNCHANGED <<rooms, peers>>
       ELSE IF rooms[c].viewer # Null
         THEN /\ reply' = Failure("Room is full")
              /\ emitted' = <<Emit(rooms[c].host, "viewer-joined", s)>>
              /\ UNCHANGED <<rooms, peers>>
       ELSE   /\ rooms' = [rooms EXCEPT ![c].viewer = s]
              /\ peers' = MapSet(peers, s, [code |-> c, role |-> "viewer"])
              /\ emitted' = <<Emit(rooms[c].host, "viewer-joined", s)>>
              /\ reply' = HostReply(rooms[c].host)
    /\ UNCHANGED <<open, nextId, now>>

\* socket.on('join-room')
JoinRoom(s, c) ==
    /\ s \in open
    /\ req' = Request("join-room", s, c)
    /\ IF ~HasRoom(c)
         THEN /\ reply' = Failure("Invalid sharing code")
              /\ emitted' = <<>>
              /\ UNCHANGED <<rooms, peers>>
       ELSE IF rooms[c].viewer # Null
         THEN /\ reply' = Failure("Room is full")
              /\ emitted' = <<>>
              /\ UNCHANGED <<rooms, peers>>
       ELSE   /\ rooms' = [rooms EXCEPT ![c].viewer = s]
              /\ peers' = MapSet(peers, s, [code |-> c, role |-> "viewer"])
              /\ emitted' = <<Emit(rooms[c].host, "viewer-joined", s)>>
              /\ reply' = HostReply(rooms[c].host)
    /\ UNCHANGED <<open, nextId, now>>

\* 'offer' forwarded with data.to in the place of socket.id as `from`.
OfferFromTarget(s, to, payload) ==
    /\ s \in open
    /\ req' = Signal("offer", s, to, payload)
    /\ emitted' = <<Emit(to, "offer", [offer |-> payload, from |-> to])>>
    /\ reply' = NoReply
    /\ UNCHANGED <<rooms, peers, open, nextId, now>>

\* socket.on('offer'): data.to is whatever the client wrote, checked against
\* neither `rooms` nor `peers`.
Offer(s, to, payload) ==
    /\ s \in open
    /\ req' = Signal("offer", s, to, payload)
    /\ emitted' = <<Emit(to, "offer", [offer |-> payload, from |-> s])>>
    /\ reply' = NoReply
    /\ UNCHANGED <<rooms, peers, open, nextId, now>>

\* socket.on('answer')
Answer(s, to, payload) ==
    /\ s \in open
    /\ req' = Signal("answer", s, to, payload)
    /\ emitted' = <<Emit(to, "answer", [answer |-> payload, from |-> s])>>
    /\ reply' = NoReply
    /\ UNCHANGED <<rooms, peers, open, nextId, now>>

\* socket.on('ice-candidate')
IceCandidate(s, to, payload) ==
    /\ s \in open
    /\ req' = Signal("ice-candidate", s, to, payload)
    /\ emitted' = <<Emit(to, "ice-candidate", [candidate |-> payload, from |-> s])>>
    /\ reply' = NoReply
    /\ UNCHANGED <<rooms, peers, open, nextId, now>>

\* The body of the 'disconnect' handler run for socket id s, with both cleanup
\* writes of the viewer branch left out (room.viewer = null, peers.delete).
DisconnectHandlerKeepsViewer(s) ==
    /\ req' = Request("disconnect", s, NoCode)
    /\ reply' = NoReply
    /\ IF ~HasPeer(s)
         THEN /\ emitted' = <<>>
              /\ UNCHANGED <<rooms, peers>>
       ELSE LET code == peers[s].code IN
              IF ~HasRoom(code)
                THEN /\ emitted' = <<>>
                     /\ peers' = MapDelete(peers, s)
                     /\ UNCHANGED rooms
              ELSE IF rooms[code].host = s
                THEN /\ emitted' = IF rooms[code].viewer # Null
                                     THEN <<Emit(rooms[code].viewer, "host-disconnected", 0)>>
                                     ELSE <<>>
                     /\ rooms' = MapDelete(rooms, code)
                     /\ peers' = MapDelete(peers, s)
              ELSE IF rooms[code].viewer = s
                THEN /\ emitted' = <<Emit(rooms[code].host, "viewer-disconnected", 0)>>
                     /\ UNCHANGED <<rooms, peers>>
              ELSE   /\ emitted' = <<>>
                     /\ peers' = MapDelete(peers, s)
                     /\ UNCHANGED rooms

\* The body of the 'disconnect' handler, run for socket id s.
DisconnectHandler(s) ==
    /\ req' = Request("disconnect", s, NoCode)
    /\ reply' = NoReply
    /\ IF ~HasPeer(s)
         THEN /\ emitted' = <<>>
              /\ UNCHANGED <<rooms, peers>>
       ELSE LET code == peers[s].code IN
              /\ peers' = MapDelete(peers, s)
              /\ IF ~HasRoom(code)
                   THEN /\ emitted' = <<>>
                        /\ UNCHANGED rooms
                 ELSE IF rooms[code].host = s
                   THEN /\ emitted' = IF rooms[code].viewer # Null
                                        THEN <<Emit(rooms[code].viewer, "host-disconnected", 0)>>
                                        ELSE <<>>
                        /\ rooms' = MapDelete(rooms, code)
                 ELSE IF rooms[code].viewer = s
                   THEN /\ rooms' = [rooms EXCEPT ![code].viewer = Null]
                        /\ emitted' = <<Emit(rooms[code].host, "viewer-disconnected", 0)>>
                 ELSE   /\ emitted' = <<>>
                        /\ UNCHANGED rooms

\* socket.on('disconnect'): Socket.IO fires it once, when the socket closes.
Disconnect(s) ==
    /\ s \in open
    /\ open' = open \ {s}
    /\ DisconnectHandler(s)
    /\ UNCHANGED <<nextId, now>>

\* The handler invoked once more for a socket that has already closed.
DisconnectAgain(s) ==
    /\ s \in Closed
    /\ DisconnectHandler(s)
    /\ UNCHANGED <<open, nextId, now>>

\* The sweep with `>=` in place of `>`: a room whose age equals ONE_HOUR goes.
SweepAtBoundary(t) ==
    /\ t >= now
    /\ now' = t
    /\ rooms' = [c \in {k \in DOMAIN rooms : ~(now' - rooms[k].createdAt >= ONE_HOUR)} |-> rooms[c]]
    /\ req' = Request("sweep", 0, NoCode)
    /\ reply' = NoReply
    /\ emitted' = <<>>
    /\ UNCHANGED <<peers, open, nextId>>

\* The setInterval callback: t is the reading of Date.now().
Sweep(t) ==
    /\ t >= now
    /\ now' = t
    /\ rooms' = [c \in {k \in DOMAIN rooms : ~(now' - rooms[k].createdAt > ONE_HOUR)} |-> rooms[c]]
    /\ req' = Request("sweep", 0, NoCode)
    /\ reply' = NoReply
    /\ emitted' = <<>>
    /\ UNCHANGED <<peers, open, nextId>>

Next ==
    \/ Connection /\ UNCHANGED clientVars
    \/ \E s \in Sockets, r \in Draws, t \in Times : GenerateCode(s, r, t) /\ UNCHANGED clientVars
    \/ \E s \in Sockets, c \in Codes : JoinRoom(s, c) /\ UNCHANGED clientVars
    \/ \E s \in Sockets : Disconnect(s) /\ UNCHANGED clientVars
    \/ \E t \in Times : Sweep(t) /\ UNCHANGED clientVars

Spec == Init /\ [][Next]_vars

\* The relay with its three signaling handlers. They read and write neither
\* `rooms` nor `peers`, so the registry handlers are taken at one clock
\* reading here.
SignalNext ==
    \/ Connection /\ UNCHANGED clientVars
    \/ \E s \in Sockets, r \in Draws : GenerateCode(s, r, now) /\ UNCHANGED clientVars
    \/ \E s \in Sockets, c \in Codes : JoinRoom(s, c) /\ UNCHANGED clientVars
    \/ \E s \in Sockets, to \in Sockets, p \in Payloads : Offer(s, to, p) /\ UNCHANGED clientVars
    \/ \E s \in Sockets, to \in Sockets, p \in Payloads : Answer(s, to, p) /\ UNCHANGED clientVars
    \/ \E s \in Sockets, to \in Sockets, p \in Payloads : IceCandidate(s, to, p) /\ UNCHANGED clientVars
    \/ \E s \in Sockets : Disconnect(s) /\ UNCHANGED clientVars
    \/ Sweep(now) /\ UNCHANGED clientVars

SignalSpec == Init /\ [][SignalNext]_vars

\* The relay when the 'disconnect' handler may be invoked again for a socket
\* that has closed.
RerunNext ==
    \/ Next
    \/ \E s \in Sockets : DisconnectAgain(s) /\ UNCHANGED clientVars

RerunSpec == Init /\ [][RerunNext]_vars

\* ------------------------------------------------- the participant's page
\* remoteControlConfig.maxBatchSize
maxBatchSize == 50

\* Coalescable events the viewer's page captures in a run of ControlSpec.
MaxInputs == 3

\* Coalescable events the viewer's page captures in a run of BatchSpec.
MaxQueued == 52

\* The keys pressed: an ordinary key and the browser shortcuts that
\* handleKeyDown leaves alone.
KeyPresses ==
    { [key |-> "a", ctrlKey |-> FALSE], [key |-> "r", ctrlKey |-> TRUE],
      [key |-> "F5", ctrlKey |-> FALSE], [key |-> "F11", ctrlKey |-> FALSE],
      [key |-> "F12", ctrlKey |-> FALSE] }

\* e.key === 'F5' || (e.ctrlKey && e.key === 'r'), 'F11', 'F12'
BrowserShortcut(k) ==
    \/ k.key = "F5"
    \/ k.ctrlKey /\ k.key = "r"
    \/ k.key = "F11"
    \/ k.key = "F12"

\* The screen coordinates, deltas and timestamps of an event are left out.
QueuedEvent(type, n) == [type |-> type, seq |-> n]
MouseEvent(type) == [type |-> type]
KeyEvent(type, k) == [type |-> type, key |-> k.key, ctrlKey |-> k.ctrlKey]
Batch(events) == [type |-> "batch", events |-> events]

Min(a, b) == IF a < b THEN a ELSE b

\* eventBatchQueue after stopEventBatching()
StoppedQueue == IF eventBatchInterval THEN <<>> ELSE eventBatchQueue

\* toggleRemoteControl(enabled)
toggleRemoteControl(enabled) ==
    /\ remoteControlEnabled' = enabled
    /\ IF ~remoteVideo
         THEN UNCHANGED <<eventBatchQueue, eventBatchInterval, mouseListeners, keyListeners>>
       ELSE IF enabled
         THEN /\ eventBatchInterval' = TRUE
              /\ mouseListeners' = TRUE
              /\ keyListeners' = TRUE
              /\ UNCHANGED eventBatchQueue
       ELSE   /\ eventBatchInterval' = FALSE
              /\ eventBatchQueue' = StoppedQueue
              /\ mouseListeners' = FALSE
              /\ keyListeners' = FALSE

\* sendControlEventImmediate wrapping the event in a batch envelope.
sendControlEventAsBatch(event) ==
    sent' = IF dataChannel = "open" THEN <<Batch(<<event>>)>> ELSE <<>>

\* sendControlEventImmediate(event)
sendControlEventImmediate(event) ==
    sent' = IF dataChannel = "open" THEN <<event>> ELSE <<>>

\* The socket id of the page modelled, and the ids its counterpart may have.
PageSocket == 1
RemoteIds == Sockets \ {PageSocket}

\* The id of the host a viewer's page is paired with.
HostId == 2

\* RTCPeerConnection objects the page creates in a run.
MaxPeerConnections == 2

\* Rooms the page hosts at the relay in a run.
MaxRooms == 2

\* The candidate the counterpart discovers.
Candidates == {"candidate-a"}

\* socket.emit(ev, ...) by the page
SocketEmit(ev, to, tracks) == [ev |-> ev, to |-> to, tracks |-> tracks]

\* createPeerConnection(): the object held so far is neither closed nor kept.
createPeerConnection ==
    /\ peerConnection' = TRUE
    /\ peerConnections' = peerConnections + 1
    /\ dataChannel' = IF role = "viewer" THEN "connecting" ELSE dataChannel
    /\ hasTracks' = (localStream /\ role = "host")
    /\ remoteDescription' = FALSE

\* disconnectFromRemote() without the stopEventBatching() call that follows
\* the toggle.
disconnectFromRemoteKeepsTimer ==
    /\ remoteControlEnabled' = FALSE
    /\ IF remoteControlEnabled /\ remoteVideo
         THEN /\ eventBatchInterval' = FALSE
              /\ eventBatchQueue' = StoppedQueue
              /\ keyListeners' = FALSE
         ELSE UNCHANGED <<eventBatchInterval, eventBatchQueue, keyListeners>>
    /\ mouseListeners' = FALSE
    /\ dataChannel' = "null"
    /\ peerConnection' = FALSE
    /\ peerConnections' = IF peerConnection THEN peerConnections - 1 ELSE peerConnections
    /\ hasTracks' = FALSE
    /\ remoteDescription' = FALSE
    /\ statsInterval' = FALSE
    /\ localStream' = FALSE
    /\ isConnected' = FALSE
    /\ currentCode' = "null"
    /\ role' = "null"
    /\ remotePeerId' = Null
    /\ remoteVideo' = FALSE
    /\ remoteControlToggle' = FALSE
    /\ sent' = <<>>
    /\ socketEmitted' = <<>>
    /\ UNCHANGED nextSeq

\* disconnectFromRemote(): it sends nothing to the relay and leaves the socket
\* connected.
disconnectFromRemote ==
    /\ remoteControlEnabled' = FALSE
    /\ eventBatchInterval' = FALSE
    /\ eventBatchQueue' = StoppedQueue
    /\ mouseListeners' = FALSE
    /\ keyListeners' = IF remoteControlEnabled /\ remoteVideo THEN FALSE ELSE keyListeners
    /\ dataChannel' = "null"
    /\ peerConnection' = FALSE
    /\ peerConnections' = IF peerConnection THEN peerConnections - 1 ELSE peerConnections
    /\ hasTracks' = FALSE
    /\ remoteDescription' = FALSE
    /\ statsInterval' = FALSE
    /\ localStream' = FALSE
    /\ isConnected' = FALSE
    /\ currentCode' = "null"
    /\ role' = "null"
    /\ remotePeerId' = Null
    /\ remoteVideo' = FALSE
    /\ remoteControlToggle' = FALSE
    /\ sent' = <<>>
    /\ socketEmitted' = <<>>
    /\ UNCHANGED nextSeq

\* connectBtn click, then connectAsViewer(code) up to the join-room request
ConnectAsViewer ==
    /\ ~isConnected
    /\ currentCode' = "code"
    /\ role' = "viewer"
    /\ socketEmitted' = <<SocketEmit("join-room", Null, FALSE)>>
    /\ did' = Did("connect", NoKey)
    /\ sent' = <<>>
    /\ UNCHANGED <<isConnected, peerConnection, dataChannel, remoteVideo, remoteControlToggle>>
    /\ UNCHANGED controlVars
    /\ UNCHANGED <<localStream, statsInterval, remotePeerId, peerConnections, hasTracks,
                   remoteDescription, capturePending, negotiation,
                   candidatesReceived, candidatesApplied>>

\* The callback of the join-room request: the relay's reply names host h, or
\* refuses.
JoinReply(ok, h) ==
    /\ ok => ~joined
    /\ joined' = (joined \/ ok)
    /\ UNCHANGED <<roomsVacant, roomsOccupied>>
    /\ role = "viewer"
    /\ remotePeerId = Null
    /\ ~peerConnection
    /\ did' = Did(IF ok THEN "joined" ELSE "join-refused", NoKey)
    /\ IF ok
         THEN /\ remotePeerId' = h
              /\ sent' = <<>>
              /\ socketEmitted' = <<>>
              /\ UNCHANGED pageVars
              /\ UNCHANGED controlVars
              /\ UNCHANGED <<localStream, statsInterval, currentCode, peerConnections,
                             hasTracks, remoteDescription>>
         ELSE disconnectFromRemote
    /\ UNCHANGED <<capturePending, negotiation, candidatesReceived, candidatesApplied>>

\* generateBtn click and the relay's reply: startScreenSharing(code) starts
\* and awaits the screen capture.
GenerateCodeReply ==
    /\ roomsVacant' = roomsVacant + 1
    /\ UNCHANGED <<roomsOccupied, joined>>
    /\ ~isConnected
    /\ ~capturePending
    /\ capturePending' = TRUE
    /\ socketEmitted' = <<SocketEmit("generate-code", Null, FALSE)>>
    /\ did' = Did("generate", NoKey)
    /\ sent' = <<>>
    /\ UNCHANGED pageVars
    /\ UNCHANGED controlVars
    /\ UNCHANGED <<localStream, statsInterval, currentCode, remotePeerId, peerConnections,
                   hasTracks, remoteDescription, negotiation,
                   candidatesReceived, candidatesApplied>>

\* startScreenSharing(code) once getDisplayMedia has resolved: the screen is
\* rebuilt around #localVideo.
StartScreenSharing ==
    /\ capturePending
    /\ capturePending' = FALSE
    /\ localStream' = TRUE
    /\ currentCode' = "code"
    /\ role' = "host"
    /\ remoteVideo' = FALSE
    /\ remoteControlToggle' = FALSE
    /\ mouseListeners' = FALSE
    /\ did' = Did("share", NoKey)
    /\ sent' = <<>>
    /\ socketEmitted' = <<>>
    /\ UNCHANGED <<isConnected, peerConnection, dataChannel>>
    /\ UNCHANGED <<remoteControlEnabled, eventBatchQueue, eventBatchInterval, keyListeners, nextSeq>>
    /\ UNCHANGED <<statsInterval, remotePeerId, peerConnections, hasTracks, remoteDescription,
                   negotiation, candidatesReceived, candidatesApplied>>

\* startScreenSharing(code) once getDisplayMedia has rejected
StartScreenSharingFails ==
    /\ capturePending
    /\ capturePending' = FALSE
    /\ disconnectFromRemote
    /\ did' = Did("share-failed", NoKey)
    /\ candidatesReceived' = {}
    /\ candidatesApplied' = {}
    /\ UNCHANGED negotiation

\* socket.on('viewer-joined'): createOffer(viewerId) up to its first await
OnViewerJoined(id) ==
    /\ roomsVacant > 0
    /\ roomsVacant' = roomsVacant - 1
    /\ roomsOccupied' = roomsOccupied + 1
    /\ UNCHANGED joined
    /\ negotiation = "none"
    /\ remotePeerId' = id
    /\ createPeerConnection
    /\ negotiation' = "createOffer"
    /\ did' = Did("viewer-joined", NoKey)
    /\ sent' = <<>>
    /\ socketEmitted' = <<>>
    /\ UNCHANGED <<role, isConnected, remoteVideo, remoteControlToggle>>
    /\ UNCHANGED controlVars
    /\ UNCHANGED <<localStream, statsInterval, currentCode, capturePending,
                   candidatesReceived, candidatesApplied>>

\* The rest of createOffer: the offer and setLocalDescription succeed (ok) and
\* the offer is emitted, or one of them raises and the catch block logs it.
CreateOfferDone(ok) ==
    /\ negotiation = "createOffer"
    /\ negotiation' = "none"
    /\ IF ok /\ peerConnection
         THEN /\ socketEmitted' = <<SocketEmit("offer", remotePeerId, hasTracks)>>
              /\ did' = Did("offer-sent", NoKey)
         ELSE /\ socketEmitted' = <<>>
              /\ did' = Did("createOffer-failed", NoKey)
    /\ sent' = <<>>
    /\ UNCHANGED pageVars
    /\ UNCHANGED controlVars
    /\ UNCHANGED <<localStream, statsInterval, currentCode, remotePeerId, peerConnections,
                   hasTracks, remoteDescription, capturePending,
                   candidatesReceived, candidatesApplied>>

\* socket.on('offer'): handleOffer(offer, from) up to its first await
OnOffer(from) ==
    /\ negotiation = "none"
    /\ remotePeerId' = from
    /\ createPeerConnection
    /\ negotiation' = "handleOffer"
    /\ did' = Did("offer", NoKey)
    /\ sent' = <<>>
    /\ socketEmitted' = <<>>
    /\ UNCHANGED <<role, isConnected, remoteVideo, remoteControlToggle>>
    /\ UNCHANGED controlVars
    /\ UNCHANGED <<localStream, statsInterval, currentCode, capturePending,
                   candidatesReceived, candidatesApplied>>

\* The rest of handleOffer: the remote description is set, the answer made
\* and emitted (ok), or a step raises and the catch block logs it.
HandleOfferDone(ok) ==
    /\ negotiation = "handleOffer"
    /\ negotiation' = "none"
    /\ IF ok /\ peerConnection
         THEN /\ remoteDescription' = TRUE
              /\ socketEmitted' = <<SocketEmit("answer", remotePeerId, hasTracks)>>
              /\ did' = Did("answer-sent", NoKey)
         ELSE /\ socketEmitted' = <<>>
              /\ did' = Did("handleOffer-failed", NoKey)
              /\ UNCHANGED remoteDescription
    /\ sent' = <<>>
    /\ UNCHANGED pageVars
    /\ UNCHANGED controlVars
    /\ UNCHANGED <<localStream, statsInterval, currentCode, remotePeerId, peerConnections,
                   hasTracks, capturePending, candidatesReceived, candidatesApplied>>

\* socket.on('answer'): handleAnswer(answer); setRemoteDescription succeeds
\* (ok) or raises, as does the call on a null peerConnection.
OnAnswer(ok) ==
    /\ IF ok /\ peerConnection
         THEN /\ remoteDescription' = TRUE
              /\ did' = Did("answer-applied", NoKey)
         ELSE /\ did' = Did("handleAnswer-failed", NoKey)
              /\ UNCHANGED remoteDescription
    /\ sent' = <<>>
    /\ socketEmitted' = <<>>
    /\ UNCHANGED pageVars
    /\ UNCHANGED controlVars
    /\ UNCHANGED <<localStream, statsInterval, currentCode, remotePeerId, peerConnections,
                   hasTracks, capturePending, negotiation,
                   candidatesReceived, candidatesApplied>>

\* socket.on('ice-candidate'): handleIceCandidate(candidate).  addIceCandidate
\* raises on a null peerConnection and rejects when there is no remote
\* description and none is being applied; a candidate given while
\* handleOffer's setRemoteDescription is under way waits for it in the
\* browser and counts as applied.  valid is FALSE for a malformed candidate,
\* which the browser rejects and the sets do not record.
OnIceCandidate(c, valid) ==
    /\ candidatesReceived' = IF valid THEN candidatesReceived \cup {c} ELSE candidatesReceived
    /\ IF valid /\ peerConnection /\ (remoteDescription \/ negotiation = "handleOffer")
         THEN /\ candidatesApplied' = candidatesApplied \cup {c}
              /\ did' = Did("candidate-added", NoKey)
         ELSE /\ did' = Did("addIceCandidate-failed", NoKey)
              /\ UNCHANGED candidatesApplied
    /\ sent' = <<>>
    /\ socketEmitted' = <<>>
    /\ UNCHANGED pageVars
    /\ UNCHANGED controlVars
    /\ UNCHANGED <<localStream, statsInterval, currentCode, remotePeerId, peerConnections,
                   hasTracks, remoteDescription, capturePending, negotiation>>

\* socket.on('host-disconnected')
OnHostDisconnected ==
    /\ joined
    /\ joined' = FALSE
    /\ UNCHANGED <<roomsVacant, roomsOccupied>>
    /\ disconnectFromRemote
    /\ did' = Did("host-disconnected", NoKey)
    /\ candidatesReceived' = {}
    /\ candidatesApplied' = {}
    /\ UNCHANGED <<capturePending, negotiation>>

\* socket.on('viewer-disconnected'): peerConnection.close() takes the data
\* channel of that connection to 'closed'.
OnViewerDisconnected ==
    /\ roomsOccupied > 0
    /\ roomsVacant' = roomsVacant + 1
    /\ roomsOccupied' = roomsOccupied - 1
    /\ UNCHANGED joined
    /\ peerConnection' = FALSE
    /\ peerConnections' = IF peerConnection THEN peerConnections - 1 ELSE peerConnections
    /\ dataChannel' = IF peerConnection /\ dataChannel # "null" THEN "closed" ELSE dataChannel
    /\ hasTracks' = FALSE
    /\ remoteDescription' = FALSE
    /\ remotePeerId' = Null
    /\ did' = Did("viewer-disconnected", NoKey)
    /\ candidatesReceived' = {}
    /\ candidatesApplied' = {}
    /\ sent' = <<>>
    /\ socketEmitted' = <<>>
    /\ UNCHANGED <<role, isConnected, remoteVideo, remoteControlToggle>>
    /\ UNCHANGED controlVars
    /\ UNCHANGED <<localStream, statsInterval, currentCode, capturePending, negotiation>>

\* peerConnection.ondatachannel: once both descriptions are set, the
\* counterpart's channel arrives in state st
OnDataChannel(st) ==
    /\ peerConnection
    /\ remoteDescription
    /\ dataChannel' = st
    /\ did' = Did("datachannel", NoKey)
    /\ sent' = <<>>
    /\ UNCHANGED <<role, isConnected, peerConnection, remoteVideo, remoteControlToggle>>
    /\ UNCHANGED controlVars

\* peerConnection.ontrack, fired by setRemoteDescription, then
\* displayRemoteStream(): the screen is rebuilt around a new #remoteVideo
\* element.
OnTrack ==
    /\ peerConnection
    /\ remoteDescription \/ negotiation = "handleOffer"
    /\ remoteVideo' = TRUE
    /\ remoteControlToggle' = (role = "viewer")
    /\ mouseListeners' = FALSE
    /\ did' = Did("track", NoKey)
    /\ sent' = <<>>
    /\ UNCHANGED <<role, isConnected, peerConnection, dataChannel>>
    /\ UNCHANGED <<remoteControlEnabled, eventBatchQueue, eventBatchInterval, keyListeners, nextSeq>>

\* peerConnection.onconnectionstatechange with state 'connected', then
\* startStatsMonitoring()
OnConnected ==
    /\ peerConnection
    /\ remoteDescription
    /\ isConnected' = TRUE
    /\ statsInterval' = TRUE
    /\ did' = Did("connected", NoKey)
    /\ sent' = <<>>
    /\ UNCHANGED <<role, peerConnection, dataChannel, remoteVideo, remoteControlToggle>>
    /\ UNCHANGED controlVars

\* click on #remoteControlToggle
ToggleClick ==
    /\ remoteControlToggle
    /\ toggleRemoteControl(~remoteControlEnabled)
    /\ did' = Did(IF remoteControlEnabled THEN "disable" ELSE "enable", NoKey)
    /\ sent' = <<>>
    /\ UNCHANGED pageVars
    /\ UNCHANGED nextSeq

\* channel.onopen
ChannelOpen ==
    /\ dataChannel = "connecting"
    /\ peerConnection
    /\ remoteDescription
    /\ dataChannel' = "open"
    /\ did' = Did("channel-open", NoKey)
    /\ sent' = <<>>
    /\ UNCHANGED <<role, isConnected, peerConnection, remoteVideo, remoteControlToggle>>
    /\ UNCHANGED controlVars

\* channel.onclose
ChannelClose ==
    /\ dataChannel \in {"connecting", "open"}
    /\ dataChannel' = "closed"
    /\ IF remoteControlEnabled
         THEN toggleRemoteControl(FALSE)
         ELSE UNCHANGED <<remoteControlEnabled, eventBatchQueue, eventBatchInterval,
                          mouseListeners, keyListeners>>
    /\ did' = Did("channel-close", NoKey)
    /\ sent' = <<>>
    /\ UNCHANGED <<role, isConnected, peerConnection, remoteVideo, remoteControlToggle>>
    /\ UNCHANGED nextSeq

\* handleMouseMove(e); throttled iff the previous accepted move is less than
\* mouseMoveThrottle ms old.
HandleMouseMove(throttled) ==
    /\ mouseListeners
    /\ IF ~remoteControlEnabled \/ throttled
         THEN UNCHANGED <<eventBatchQueue, nextSeq>>
         ELSE /\ eventBatchQueue' = Append(eventBatchQueue, QueuedEvent("mousemove", nextSeq))
              /\ nextSeq' = nextSeq + 1
    /\ did' = Did("mousemove", NoKey)
    /\ sent' = <<>>
    /\ UNCHANGED pageVars
    /\ UNCHANGED <<remoteControlEnabled, eventBatchInterval, mouseListeners, keyListeners>>

\* handleMouseWheel(e)
HandleMouseWheel ==
    /\ mouseListeners
    /\ IF ~remoteControlEnabled
         THEN UNCHANGED <<eventBatchQueue, nextSeq>>
         ELSE /\ eventBatchQueue' = Append(eventBatchQueue, QueuedEvent("wheel", nextSeq))
              /\ nextSeq' = nextSeq + 1
    /\ did' = Did("wheel", NoKey)
    /\ sent' = <<>>
    /\ UNCHANGED pageVars
    /\ UNCHANGED <<remoteControlEnabled, eventBatchInterval, mouseListeners, keyListeners>>

\* handleMouseDown(e)
HandleMouseDown ==
    /\ mouseListeners
    /\ IF ~remoteControlEnabled
         THEN sent' = <<>>
         ELSE sendControlEventImmediate(MouseEvent("mousedown"))
    /\ did' = Did("mousedown", NoKey)
    /\ UNCHANGED pageVars
    /\ UNCHANGED controlVars

\* handleMouseUp(e)
HandleMouseUp ==
    /\ mouseListeners
    /\ IF ~remoteControlEnabled
         THEN sent' = <<>>
         ELSE sendControlEventImmediate(MouseEvent("mouseup"))
    /\ did' = Did("mouseup", NoKey)
    /\ UNCHANGED pageVars
    /\ UNCHANGED controlVars

\* handleKeyDown(e)
HandleKeyDown(k) ==
    /\ keyListeners
    /\ IF ~remoteControlEnabled \/ BrowserShortcut(k)
         THEN sent' = <<>>
         ELSE sendControlEventImmediate(KeyEvent("keydown", k))
    /\ did' = Did("keydown", k)
    /\ UNCHANGED pageVars
    /\ UNCHANGED controlVars

\* handleKeyUp(e)
HandleKeyUp(k) ==
    /\ keyListeners
    /\ IF ~remoteControlEnabled
         THEN sent' = <<>>
         ELSE sendControlEventImmediate(KeyEvent("keyup", k))
    /\ did' = Did("keyup", k)
    /\ UNCHANGED pageVars
    /\ UNCHANGED controlVars

\* The flush callback with slice(0, maxBatchSize) in place of the splice: the
\* events sent stay queued.
FlushTickKeepsQueue ==
    /\ eventBatchInterval
    /\ IF Len(eventBatchQueue) > 0 /\ dataChannel = "open"
         THEN /\ sent' = <<Batch(SubSeq(eventBatchQueue, 1, Min(Len(eventBatchQueue), maxBatchSize)))>>
              /\ UNCHANGED eventBatchQueue
         ELSE /\ sent' = <<>>
              /\ UNCHANGED eventBatchQueue
    /\ did' = Did("flush", NoKey)
    /\ UNCHANGED pageVars
    /\ UNCHANGED <<remoteControlEnabled, eventBatchInterval, mouseListeners, keyListeners, nextSeq>>

\* The flush callback with `eventBatchQueue = []` after the send in place of
\* the splice.
FlushTickDropsRest ==
    /\ eventBatchInterval
    /\ IF Len(eventBatchQueue) > 0 /\ dataChannel = "open"
         THEN /\ sent' = <<Batch(SubSeq(eventBatchQueue, 1, Min(Len(eventBatchQueue), maxBatchSize)))>>
              /\ eventBatchQueue' = <<>>
         ELSE /\ sent' = <<>>
              /\ UNCHANGED eventBatchQueue
    /\ did' = Did("flush", NoKey)
    /\ UNCHANGED pageVars
    /\ UNCHANGED <<remoteControlEnabled, eventBatchInterval, mouseListeners, keyListeners, nextSeq>>

\* The callback startEventBatching() gave to setInterval, run once.
FlushTick ==
    /\ eventBatchInterval
    /\ IF Len(eventBatchQueue) > 0 /\ dataChannel = "open"
         THEN LET n == Min(Len(eventBatchQueue), maxBatchSize) IN
              /\ sent' = <<Batch(SubSeq(eventBatchQueue, 1, n))>>
              /\ eventBatchQueue' = SubSeq(eventBatchQueue, n + 1, Len(eventBatchQueue))
         ELSE /\ sent' = <<>>
              /\ UNCHANGED eventBatchQueue
    /\ did' = Did("flush", NoKey)
    /\ UNCHANGED pageVars
    /\ UNCHANGED <<remoteControlEnabled, eventBatchInterval, mouseListeners, keyListeners, nextSeq>>

\* disconnectBtn click, the end of the captured track or a lost peer
\* connection: disconnectFromRemote()
DisconnectFromRemote ==
    /\ disconnectFromRemote
    /\ did' = Did("disconnect", NoKey)
    /\ candidatesReceived' = {}
    /\ candidatesApplied' = {}
    /\ UNCHANGED <<capturePending, negotiation>>

\* What an action of the page leaves alone besides the variables it names.
relayAndSdp == <<relayVars, sdpVars, relayView>>
NoSignalling == socketEmitted' = <<>> /\ UNCHANGED <<relayVars, sdpVars, sessionVars, relayView>>

\* The page over a session's life, with few input events.
ControlNext ==
    \/ ConnectAsViewer /\ UNCHANGED relayAndSdp
    \/ roomsVacant = 0 /\ GenerateCodeReply /\ UNCHANGED <<relayVars, sdpVars>>
    \/ StartScreenSharing /\ UNCHANGED relayAndSdp
    \/ ~peerConnection /\ OnOffer(HostId) /\ UNCHANGED relayAndSdp
    \/ HandleOfferDone(TRUE) /\ UNCHANGED relayAndSdp
    \/ \E st \in {"connecting", "open"} : OnDataChannel(st) /\ NoSignalling
    \/ OnTrack /\ NoSignalling
    \/ OnConnected /\ UNCHANGED relayAndSdp
           /\ socketEmitted' = <<>>
           /\ UNCHANGED <<localStream, currentCode, remotePeerId, peerConnections, hasTracks,
                          remoteDescription, capturePending, negotiation,
                          candidatesReceived, candidatesApplied>>
    \/ ToggleClick /\ NoSignalling
    \/ ChannelOpen /\ NoSignalling
    \/ ChannelClose /\ NoSignalling
    \/ \E th \in BOOLEAN : nextSeq <= MaxInputs /\ HandleMouseMove(th) /\ NoSignalling
    \/ nextSeq <= MaxInputs /\ HandleMouseWheel /\ NoSignalling
    \/ HandleMouseDown /\ NoSignalling
    \/ HandleMouseUp /\ NoSignalling
    \/ \E k \in KeyPresses : HandleKeyDown(k) /\ NoSignalling
    \/ \E k \in KeyPresses : HandleKeyUp(k) /\ NoSignalling
    \/ FlushTick /\ NoSignalling
    \/ DisconnectFromRemote /\ UNCHANGED relayAndSdp

ControlSpec == Init /\ [][ControlNext]_vars

\* A viewer's page up to the first teardown, capturing many coalescable
\* events: moves and wheel turns alternate.
BatchNext ==
    \/ ConnectAsViewer /\ UNCHANGED relayAndSdp
    \/ ~peerConnection /\ OnOffer(HostId) /\ UNCHANGED relayAndSdp
    \/ HandleOfferDone(TRUE) /\ UNCHANGED relayAndSdp
    \/ OnTrack /\ NoSignalling
    \/ ToggleClick /\ NoSignalling
    \/ ChannelOpen /\ NoSignalling
    \/ \E th \in BOOLEAN :
          nextSeq <= MaxQueued /\ nextSeq % 2 = 1 /\ HandleMouseMove(th) /\ NoSignalling
    \/ nextSeq <= MaxQueued /\ nextSeq % 2 = 0 /\ HandleMouseWheel /\ NoSignalling
    \/ HandleMouseDown /\ NoSignalling
    \/ FlushTick /\ NoSignalling

BatchSpec == Init /\ [][BatchNext]_vars

\* The page's signalling: joining, capturing, negotiating and the ways a
\* session ends.  No input is captured.
SessionNext ==
    \/ ConnectAsViewer /\ UNCHANGED relayAndSdp
    \/ \E ok \in BOOLEAN, h \in RemoteIds : JoinReply(ok, h) /\ UNCHANGED <<relayVars, sdpVars>>
    \/ roomsVacant + roomsOccupied < MaxRooms /\ GenerateCodeReply /\ UNCHANGED <<relayVars, sdpVars>>
    \/ StartScreenSharing /\ UNCHANGED relayAndSdp
    \/ StartScreenSharingFails /\ UNCHANGED relayAndSdp
    \/ \E id \in RemoteIds :
          peerConnections < MaxPeerConnections /\ OnViewerJoined(id) /\ UNCHANGED <<relayVars, sdpVars>>
    \/ \E ok \in BOOLEAN : CreateOfferDone(ok) /\ UNCHANGED relayAndSdp
    \/ \E from \in RemoteIds :
          peerConnections < MaxPeerConnections /\ OnOffer(from) /\ UNCHANGED relayAndSdp
    \/ \E ok \in BOOLEAN : HandleOfferDone(ok) /\ UNCHANGED relayAndSdp
    \/ \E ok \in BOOLEAN : OnAnswer(ok) /\ UNCHANGED relayAndSdp
    \/ \E c \in Candidates, valid \in BOOLEAN : OnIceCandidate(c, valid) /\ UNCHANGED relayAndSdp
    \/ OnHostDisconnected /\ UNCHANGED <<relayVars, sdpVars>>
    \/ OnViewerDisconnected /\ UNCHANGED <<relayVars, sdpVars>>
    \/ \E st \in {"connecting", "open"} : OnDataChannel(st) /\ NoSignalling
    \/ OnTrack /\ NoSignalling
    \/ OnConnected /\ UNCHANGED relayAndSdp
           /\ socketEmitted' = <<>>
           /\ UNCHANGED <<localStream, currentCode, remotePeerId, peerConnections, hasTracks,
                          remoteDescription, capturePending, negotiation,
                          candidatesReceived, candidatesApplied>>
    \/ ChannelOpen /\ NoSignalling
    \/ ChannelClose /\ NoSignalling
    \/ DisconnectFromRemote /\ UNCHANGED relayAndSdp

SessionSpec == Init /\ [][SessionNext]_vars

\* A viewer's page (socket PageSocket) and the relay together: the page joins
\* a room of the host HostId, is told the outcome, and leaves by
\* disconnectFromRemote or on the host's departure.  The page's join-room
\* request and the relay's handling of it are one step; the callback is the
\* next step of the page.
LeaveNext ==
    \/ Connection /\ UNCHANGED clientVars
    \/ \E r \in Draws : GenerateCode(HostId, r, now) /\ UNCHANGED clientVars
    \/ \E c \in Codes :
          /\ ConnectAsViewer
          /\ JoinRoom(PageSocket, c)
          /\ UNCHANGED <<sdpVars, relayView>>
    \/ /\ req.op = "join-room" /\ req.conn = PageSocket /\ did.op = "connect"
       /\ JoinReply(reply.success, reply.hostId)
       /\ UNCHANGED <<relayVars, sdpVars>>
    \/ DisconnectFromRemote /\ UNCHANGED relayAndSdp
    \/ Disconnect(HostId) /\ UNCHANGED clientVars
    \/ /\ \E i \in 1 .. Len(emitted) :
             emitted[i].ev = "host-disconnected" /\ emitted[i].to = PageSocket
       /\ OnHostDisconnected
       /\ UNCHANGED <<relayVars, sdpVars>>

LeaveSpec == Init /\ [][LeaveNext]_vars

\* ------------------------------------------- the descriptor transformation
\* Lines in a descriptor given to optimizeSDPForLatency.
MaxLines == 3

\* A descriptor is its text cut into the pieces the two regular expressions
\* tell apart: "a=fmtp:", "a=rtpmap:", a payload type (\d+), a space, a codec
\* name, the rest of a line, and the line break.
CRLF == "\r\n"
PayloadTypes == {"96", "97"}

\* The lines a browser writes into a video section.
SdpLines ==
    {<<"a=rtpmap:", pt, " ", "H264", "/90000">> : pt \in PayloadTypes}
      \cup {<<"a=rtpmap:", pt, " ", "VP8", "/90000">> : pt \in PayloadTypes}
      \cup {<<"a=fmtp:", pt, " ", "packetization-mode=1">> : pt \in PayloadTypes}
      \cup {<<"a=mid:0">>}

\* lines.map(l => l + '\r\n').join('')
RECURSIVE JoinLines(_)
JoinLines(ls) ==
    IF ls = <<>> THEN <<>> ELSE Head(ls) \o <<CRLF>> \o JoinLines(Tail(ls))

\* The descriptors createOffer() / createAnswer() may produce.
Descriptors ==
    UNION {{JoinLines(ls) : ls \in [1 .. n -> SdpLines]} : n \in 1 .. MaxLines}

BitrateHints == "x-google-max-bitrate=10000;x-google-min-bitrate=2000;x-google-start-bitrate=5000;"
H264Profile == "profile-level-id=42e01f;level-asymmetry-allowed=1;packetization-mode=1"

\* sdp.replace(/a=fmtp:(\d+) /g, 'a=fmtp:$1 x-google-...;')
RECURSIVE ReplaceFmtp(_)
ReplaceFmtp(s) ==
    IF s = <<>> THEN <<>>
    ELSE IF Len(s) >= 3 /\ s[1] = "a=fmtp:" /\ s[2] \in PayloadTypes /\ s[3] = " "
      THEN <<"a=fmtp:", s[2], " ", BitrateHints>> \o ReplaceFmtp(SubSeq(s, 4, Len(s)))
    ELSE <<Head(s)>> \o ReplaceFmtp(Tail(s))

\* modifiedSdp.replace(/a=rtpmap:(\d+) H264/g, 'a=rtpmap:$1 H264\r\na=fmtp:$1 profile-...')
RECURSIVE ReplaceH264(_)
ReplaceH264(s) ==
    IF s = <<>> THEN <<>>
    ELSE IF /\ Len(s) >= 4 /\ s[1] = "a=rtpmap:" /\ s[2] \in PayloadTypes
            /\ s[3] = " " /\ s[4] = "H264"
      THEN <<"a=rtpmap:", s[2], " ", "H264", CRLF, "a=fmtp:", s[2], " ", H264Profile>>
             \o ReplaceH264(SubSeq(s, 5, Len(s)))
    ELSE <<Head(s)>> \o ReplaceH264(Tail(s))

\* optimizeSDPForLatency(sdp); String.prototype.replace does not throw here
optimizeSDPForLatency(d) == ReplaceH264(ReplaceFmtp(d))

\* offer.sdp = optimizeSDPForLatency(offer.sdp), for the descriptor d that
\* createOffer() or createAnswer() produced.
OptimizeSdp(d) ==
    /\ sdp' = d
    /\ modifiedSdp' = optimizeSDPForLatency(d)
    /\ UNCHANGED <<relayVars, pageVars, controlVars, sessionVars, relayView, socketEmitted, did, sent>>

SdpNext == \E d \in Descriptors : OptimizeSdp(d)

SdpSpec == Init /\ [][SdpNext]_vars

\* ---------------------------------------------------------------- claims
\* How many times the handler emitted event ev to connection id.
EmittedTo(seq, id, ev) ==
    Cardinality({i \in DOMAIN seq : seq[i].to = id /\ seq[i].ev = ev})

\* C1: a join-room on a code that is not in the registry is answered
\* {success:false, 'Invalid sharing code'}, one on a code whose room has a
\* viewer is answered {success:false, 'Room is full'}; either way the registry
\* and the peer index are as before the request and nothing is emitted.
C1_JoinFailureLeavesNoTrace ==
    [][req'.op = "join-room" =>
         /\ ~HasRoom(req'.code) =>
              /\ reply' = Failure("Invalid sharing code")
              /\ rooms' = rooms /\ peers' = peers /\ emitted' = <<>>
         /\ (HasRoom(req'.code) /\ rooms[req'.code].viewer # Null) =>
              /\ reply' = Failure("Room is full")
              /\ rooms' = rooms /\ peers' = peers /\ emitted' = <<>>]_vars

\* A join-room was just refused as 'Room is full' while the requester holds a
\* PeerRecord of its own and the room's viewer is another, connected socket.
C1_Witness ==
    /\ req.op = "join-room"
    /\ reply = Failure("Room is full")
    /\ HasPeer(req.conn)
    /\ rooms[req.code].viewer \in open \ {req.conn}

C3_NoRoomOfClosedHost ==
    \A c \in DOMAIN rooms : rooms[c].host \notin Closed

\* C4: when the host of a room that has a viewer disconnects, the viewer is no
\* longer bound to that room's code in the peer index.
C4_ViewerUnboundOnHostLeave ==
    [][req'.op = "disconnect" =>
         \A c \in DOMAIN rooms :
            (/\ rooms[c].host = req'.conn
             /\ rooms[c].viewer \notin {Null, req'.conn}
             /\ HasPeer(req'.conn) /\ peers[req'.conn].code = c) =>
               ~(/\ rooms[c].viewer \in DOMAIN peers'
                 /\ peers'[rooms[c].viewer].code = c)]_vars

\* C5: when a host's connection closes, every connected viewer recorded in a
\* room of that host is sent exactly one 'host-disconnected'.
C5_ViewerToldOnce ==
    [][req'.op = "disconnect" =>
         \A c \in DOMAIN rooms :
            (/\ rooms[c].host = req'.conn
             /\ rooms[c].viewer \in open \ {req'.conn}) =>
               EmittedTo(emitted', rooms[c].viewer, "host-disconnected") = 1]_vars

\* C6: when a viewer's connection closes, every room that records it as viewer
\* (and is hosted by another connection) stays in the registry with an empty
\* viewer slot, and its host is sent exactly one 'viewer-disconnected'.
C6_RoomReusableOnViewerLeave ==
    [][req'.op = "disconnect" =>
         \A c \in DOMAIN rooms :
            (rooms[c].viewer = req'.conn /\ rooms[c].host # req'.conn) =>
               /\ c \in DOMAIN rooms'
               /\ rooms'[c].viewer = Null
               /\ EmittedTo(emitted', rooms[c].host, "viewer-disconnected") = 1]_vars

\* C7: a generate-code inserts its room under a code that was not a key of the
\* registry, and leaves every room that was live unchanged.
C7_GenerateNeverOverwrites ==
    [][req'.op = "generate-code" =>
         /\ ~HasRoom(req'.code)
         /\ \A c \in DOMAIN rooms : c \in DOMAIN rooms' /\ rooms'[c] = rooms[c]]_vars

\* C8: every PeerRecord {code, role} refers to a room of the registry whose
\* slot for that role holds the connection.
C8_PeerRecordsMatchRooms ==
    \A s \in DOMAIN peers :
        /\ HasRoom(peers[s].code)
        /\ peers[s].role = "host" => rooms[peers[s].code].host = s
        /\ peers[s].role = "viewer" => rooms[peers[s].code].viewer = s

\* C9: if a room's viewer slot holds v, the peer index maps v to that room's
\* code with role 'viewer'.
C9_ViewerSlotHasPeerRecord ==
    \A c \in DOMAIN rooms :
        rooms[c].viewer # Null =>
            /\ HasPeer(rooms[c].viewer)
            /\ peers[rooms[c].viewer] = [code |-> c, role |-> "viewer"]

\* The rooms that record connection s as host or as viewer.
RoomsOf(s) == {c \in DOMAIN rooms : rooms[c].host = s \/ rooms[c].viewer = s}

\* C10: a connection has a PeerRecord if and only if exactly one room records
\* it, and no connection is recorded in two rooms.
C10_OneRoomPerConnection ==
    \A s \in Sockets :
        /\ HasPeer(s) <=> Cardinality(RoomsOf(s)) = 1
        /\ Cardinality(RoomsOf(s)) <= 1

\* C11: a generate-code never returns a code that some PeerRecord still names
\* although no room has it, that is, the code of a room that was destroyed.
C11_DestroyedCodeNeverReused ==
    [][req'.op = "generate-code" =>
         ~(\E s \in DOMAIN peers : peers[s].code = req'.code /\ ~HasRoom(req'.code))]_vars

\* C12: a sweep that reads the clock at now' deletes exactly the rooms with
\* now' - createdAt > ONE_HOUR, with or without a viewer, and leaves every
\* other room as it was; nothing else is added.
C12_SweepDeletesExactlyExpired ==
    [][req'.op = "sweep" =>
         /\ DOMAIN rooms' \subseteq DOMAIN rooms
         /\ \A c \in DOMAIN rooms :
              IF now' - rooms[c].createdAt > ONE_HOUR
                THEN c \notin DOMAIN rooms'
                ELSE c \in DOMAIN rooms' /\ rooms'[c] = rooms[c]]_vars

\* A sweep at ONE_HOUR + 1 has just kept a room created at 1 (its age equals
\* ONE_HOUR) with its viewer in place, and has deleted the other room, whose
\* viewer's PeerRecord still names it.
C12_Witness ==
    /\ req.op = "sweep"
    /\ now = ONE_HOUR + 1
    /\ \E c \in DOMAIN rooms : rooms[c].createdAt = 1 /\ rooms[c].viewer # Null
    /\ \E s \in DOMAIN peers : peers[s].role = "viewer" /\ ~HasRoom(peers[s].code)

\* C13: a join-room answered with success has put the requester in the room's
\* viewer slot and bound it as 'viewer', has emitted exactly one message, a
\* 'viewer-joined' carrying the requester's id to the room's host, and has
\* replied with that host's id; a join-room answered with a failure has
\* emitted no 'viewer-joined' to anyone.
C13_JoinSuccessEffects ==
    [][req'.op = "join-room" =>
         IF reply'.success
           THEN /\ HasRoom(req'.code)
                /\ req'.code \in DOMAIN rooms'
                /\ rooms'[req'.code] = [rooms[req'.code] EXCEPT !.viewer = req'.conn]
                /\ req'.conn \in DOMAIN peers'
                /\ peers'[req'.conn] = [code |-> req'.code, role |-> "viewer"]
                /\ emitted' = <<Emit(rooms[req'.code].host, "viewer-joined", req'.conn)>>
                /\ reply' = HostReply(rooms[req'.code].host)
           ELSE \A i \in DOMAIN emitted' : emitted'[i].ev # "viewer-joined"]_vars

\* A viewer has just joined the room of another, connected host.
C13_Witness ==
    /\ req.op = "join-room"
    /\ reply.success
    /\ reply.hostId \in open \ {req.conn}
    /\ emitted = <<Emit(reply.hostId, "viewer-joined", req.conn)>>
    /\ rooms[req.code].viewer = req.conn

\* The events of the three signaling handlers.
SignalOps == {"offer", "answer", "ice-candidate"}

\* What the handler of event op forwards for payload p sent by s.
Forwarded(op, p, s) ==
    CASE op = "offer" -> [offer |-> p, from |-> s]
      [] op = "answer" -> [answer |-> p, from |-> s]
      [] op = "ice-candidate" -> [candidate |-> p, from |-> s]

Paired(a, b) ==
    \E c \in DOMAIN rooms :
        \/ rooms[c].host = a /\ rooms[c].viewer = b
        \/ rooms[c].host = b /\ rooms[c].viewer = a

\* C15: a negotiation message is emitted to a connected socket only if the
\* sender and that socket are the host and the viewer of the same live room.
C15_ForwardedOnlyWithinPair ==
    [][req'.op \in SignalOps =>
         \A i \in DOMAIN emitted' :
            emitted'[i].to \in open => Paired(req'.conn, emitted'[i].to)]_vars

\* C16: the 'disconnect' handler run again for a closed socket changes neither
\* the registry nor the peer index and emits nothing; run for a socket whose
\* PeerRecord names a missing room, or a room that records neither it as host
\* nor it as viewer, it only drops that PeerRecord.
C16_DisconnectIdempotent ==
    [][req'.op = "disconnect" =>
         /\ req'.conn \in Closed =>
              rooms' = rooms /\ peers' = peers /\ emitted' = <<>>
         /\ (/\ HasPeer(req'.conn)
             /\ \/ ~HasRoom(peers[req'.conn].code)
                \/ /\ rooms[peers[req'.conn].code].host # req'.conn
                   /\ rooms[peers[req'.conn].code].viewer # req'.conn) =>
              /\ rooms' = rooms /\ emitted' = <<>>
              /\ peers' = MapDelete(peers, req'.conn)]_vars

\* The handler has just run again for a closed socket that a live room still
\* records as its viewer.
C16_Witness ==
    /\ req.op = "disconnect"
    /\ req.conn \in Closed
    /\ emitted = <<>>
    /\ \E c \in DOMAIN rooms : rooms[c].viewer = req.conn

\* C17: a flush tick with the channel open and n > 0 events queued sends
\* exactly one batch holding the min(n, maxBatchSize) oldest queued events in
\* the order they were captured, and the other events stay queued in order.
C17_FlushSendsOldestBatch ==
    [][(did'.op = "flush" /\ dataChannel = "open" /\ Len(eventBatchQueue) > 0) =>
         LET n == Len(eventBatchQueue)
             m == IF n < maxBatchSize THEN n ELSE maxBatchSize
         IN  /\ Len(sent') = 1
             /\ sent'[1].type = "batch"
             /\ Len(sent'[1].events) = m
             /\ \A i \in 1 .. m : sent'[1].events[i] = eventBatchQueue[i]
             /\ \A i \in 1 .. (m - 1) : sent'[1].events[i].seq < sent'[1].events[i + 1].seq
             /\ Len(eventBatchQueue') = n - m
             /\ \A j \in 1 .. (n - m) : eventBatchQueue'[j] = eventBatchQueue[m + j]]_vars

\* A flush tick has just sent a full batch and left events queued.
C17_Witness ==
    /\ did.op = "flush"
    /\ Len(sent) = 1
    /\ Len(sent[1].events) = maxBatchSize
    /\ Len(eventBatchQueue) > 0
    /\ eventBatchQueue[1].seq = maxBatchSize + 1

\* The handlers of the immediate events.
ImmediateOps == {"mousedown", "mouseup", "keydown", "keyup"}

\* The message an immediate handler builds for the event it was given.
ImmediateEvent(d) ==
    IF d.op \in {"keydown", "keyup"} THEN KeyEvent(d.op, d.key) ELSE MouseEvent(d.op)

\* C18 as claimed: every mousedown, mouseup, keydown or keyup handled while
\* control is enabled and the channel is open is sent in that step as one
\* single-event message, and the queue is left as it was.
C18_ImmediateAlwaysSent ==
    [][(did'.op \in ImmediateOps /\ remoteControlEnabled /\ dataChannel = "open") =>
         /\ sent' = <<ImmediateEvent(did')>>
         /\ eventBatchQueue' = eventBatchQueue]_vars

\* C18 as amended: the same for every immediate event except a keydown of a
\* browser shortcut (F5, Ctrl+R, F11, F12), which is not sent.
C18_ImmediateSentUnlessShortcut ==
    [][(did'.op \in ImmediateOps /\ remoteControlEnabled /\ dataChannel = "open") =>
         /\ sent' = IF did'.op = "keydown" /\ BrowserShortcut(did'.key)
                      THEN <<>>
                      ELSE <<ImmediateEvent(did')>>
         /\ eventBatchQueue' = eventBatchQueue]_vars

\* A mousedown has just been sent on its own while coalescable events wait in
\* the queue.
C18_Witness ==
    /\ did.op = "mousedown"
    /\ remoteControlEnabled
    /\ dataChannel = "open"
    /\ sent = <<MouseEvent("mousedown")>>
    /\ Len(eventBatchQueue) > 0

\* C19: a step that disables remote control leaves no flush timer and an
\* empty queue, and no step taken while control stays disabled sends anything.
C19_DisableStopsTransport ==
    [][/\ (remoteControlEnabled /\ ~remoteControlEnabled') =>
            (~eventBatchInterval' /\ eventBatchQueue' = <<>>)
       /\ (~remoteControlEnabled /\ ~remoteControlEnabled') => sent' = <<>>]_vars

\* The lines of a descriptor text, without their line breaks.
RECURSIVE SplitLines(_, _)
SplitLines(s, cur) ==
    IF s = <<>> THEN (IF cur = <<>> THEN <<>> ELSE <<cur>>)
    ELSE IF Head(s) = CRLF THEN <<cur>> \o SplitLines(Tail(s), <<>>)
    ELSE SplitLines(Tail(s), Append(cur, Head(s)))

IsFmtpLine(l) == Len(l) >= 3 /\ l[1] = "a=fmtp:"
IsH264Line(l) == Len(l) >= 4 /\ l[1] = "a=rtpmap:" /\ l[4] = "H264"

CountLines(ls, P(_)) == Cardinality({i \in DOMAIN ls : P(ls[i])})

\* What the claim expects of each line: a format-parameter line gets the
\* hints, an H264 mapping line is followed by the profile line, any other
\* line is kept.
RECURSIVE ExpectedLines(_)
ExpectedLines(ls) ==
    IF ls = <<>> THEN <<>>
    ELSE LET l == Head(ls) IN
         (IF IsFmtpLine(l)
            THEN <<<<l[1], l[2], l[3], BitrateHints>> \o SubSeq(l, 4, Len(l))>>
          ELSE IF IsH264Line(l)
            THEN <<l, <<"a=fmtp:", l[2], " ", H264Profile>>>>
          ELSE <<l>>) \o ExpectedLines(Tail(ls))

\* C20: for a descriptor with one format-parameter line and one H264 mapping
\* line, the result has the hints on the parameter line, the H264 mapping line
\* whole, right after it a format-parameter line for the same payload type
\* with exactly the profile string, and every other line unchanged.
C20_ProfileLineAfterWholeH264Line ==
    (/\ sdp # <<>>
     /\ CountLines(SplitLines(sdp, <<>>), IsFmtpLine) = 1
     /\ CountLines(SplitLines(sdp, <<>>), IsH264Line) = 1) =>
        SplitLines(modifiedSdp, <<>>) = ExpectedLines(SplitLines(sdp, <<>>))

\* C29: a control event whose send is attempted while the channel is absent or
\* not open is dropped for good: an immediate event is neither sent nor queued,
\* and a flush tick sends nothing and removes from the queue the batch it would
\* have sent, so that it is not transmitted once the channel opens.
C29_UnsendableEventsDropped ==
    [][(dataChannel # "open") =>
         /\ (did'.op \in ImmediateOps) =>
               (sent' = <<>> /\ eventBatchQueue' = eventBatchQueue)
         /\ (did'.op = "flush") =>
               /\ sent' = <<>>
               /\ eventBatchQueue' =
                    SubSeq(eventBatchQueue, Min(Len(eventBatchQueue), maxBatchSize) + 1,
                           Len(eventBatchQueue))]_vars

\* C30: a flush timer is active only while remote control is enabled (with
\* enable and disable idempotent, at most one timer exists at any time).
C30_TimerOnlyWhileEnabled ==
    eventBatchInterval => remoteControlEnabled

\* The numbers of the events in a sequence of queued events.
SeqsOf(events) == {events[i].seq : i \in 1 .. Len(events)}

\* C28: no control event is handed to the channel twice.  The events of a
\* batch leave the queue in the step that sends them and every event still
\* queued was captured after them; an event sent singly is never queued; the
\* queue only ever gains the event captured in that step, under a number no
\* earlier event had, so an event that left the queue never returns to it;
\* the queue is in capture order, hence successive batches carry the
\* coalescable events in the order they were enqueued.
C28_NoRetransmission ==
    [][/\ (sent' # <<>> /\ sent'[1].type = "batch") =>
             /\ Len(sent') = 1
             /\ SeqsOf(sent'[1].events) \cap SeqsOf(eventBatchQueue') = {}
             /\ \A i \in SeqsOf(sent'[1].events), j \in SeqsOf(eventBatchQueue') : i < j
       /\ (sent' # <<>> /\ sent'[1].type # "batch") =>
             /\ Len(sent') = 1
             /\ eventBatchQueue' = eventBatchQueue
       /\ SeqsOf(eventBatchQueue') \subseteq SeqsOf(eventBatchQueue) \cup {nextSeq}
       /\ nextSeq' >= nextSeq
       /\ \A j \in SeqsOf(eventBatchQueue') : j < nextSeq'
       /\ \A i \in 1 .. (Len(eventBatchQueue') - 1) :
             eventBatchQueue'[i].seq < eventBatchQueue'[i + 1].seq]_vars

\* A second batch has just been sent: it starts with the event captured
\* right after the last event of a full first batch.
C28_Witness ==
    /\ did.op = "flush"
    /\ Len(sent) = 1
    /\ sent[1].type = "batch"
    /\ sent[1].events[1].seq = maxBatchSize + 1

\* The outcomes of a negotiation step that raised an error.
FailedOps == {"createOffer-failed", "handleOffer-failed", "handleAnswer-failed",
              "addIceCandidate-failed"}

\* C21: a negotiation step that fails while the page holds a peer connection
\* ends with the session torn down: the peer connection is released and
\* isConnected, currentCode, role and remotePeerId are reset.
C21_FailedNegotiationTearsDown ==
    [][(did'.op \in FailedOps /\ peerConnection) =>
         /\ ~peerConnection'
         /\ ~isConnected'
         /\ currentCode' = "null"
         /\ role' = "null"
         /\ remotePeerId' = Null]_vars

\* C22: the page holds at most one RTCPeerConnection that has not been
\* closed.
C22_OnePeerConnection ==
    peerConnections <= 1

\* C23 (its safety part): once the peer connection has a remote description
\* and no negotiation is under way, every well-formed candidate that reached
\* the page since the last teardown has been applied.
C23_EarlyCandidatesApplied ==
    (peerConnection /\ remoteDescription /\ negotiation = "none") =>
        candidatesReceived \subseteq candidatesApplied

\* C24: every offer the page emits comes from a peer connection that got the
\* local tracks.
C24_OfferCarriesTracks ==
    [][did'.op = "offer-sent" => socketEmitted'[1].tracks]_vars

\* C26: a 'host-disconnected' or 'viewer-disconnected' notification leaves the
\* page with no peer connection, no data channel that is not closed,
\* isConnected false and no remotePeerId.
C26_NotificationClosesSession ==
    [][did'.op \in {"host-disconnected", "viewer-disconnected"} =>
         /\ ~peerConnection'
         /\ dataChannel' \in {"null", "closed"}
         /\ ~isConnected'
         /\ remotePeerId' = Null]_vars

\* C25: after disconnectFromRemote no flush timer and no statistics timer
\* runs, the queue is empty, remote control is disabled, the peer connection,
\* the data channel and the local stream are released and isConnected,
\* currentCode, role and remotePeerId are reset; a second call right after
\* the first changes nothing of the page's state.
C25_DisconnectReleasesAll ==
    [][did'.op = "disconnect" =>
         /\ ~eventBatchInterval'
         /\ ~statsInterval'
         /\ eventBatchQueue' = <<>>
         /\ ~remoteControlEnabled'
         /\ ~peerConnection'
         /\ dataChannel' = "null"
         /\ ~localStream'
         /\ ~isConnected'
         /\ currentCode' = "null"
         /\ role' = "null"
         /\ remotePeerId' = Null
         /\ (did.op = "disconnect" => UNCHANGED <<pageVars, controlVars, sessionVars>>)]_vars

\* disconnectFromRemote has just run on a page that had captured input and
\* had been given a sharing code.
C25_Witness ==
    /\ did.op = "disconnect"
    /\ nextSeq > 1
    /\ roomsVacant > 0
    /\ ~peerConnection
    /\ ~eventBatchInterval

\* C27: when a viewer's page that a room of the relay records as its viewer
\* runs disconnectFromRemote, the room no longer records it afterwards and
\* the relay emits 'viewer-disconnected' to the host.
C27_LeaveFreesRoom ==
    [][(/\ did'.op = "disconnect"
        /\ role = "viewer"
        /\ \E c \in DOMAIN rooms : rooms[c].viewer = PageSocket) =>
         /\ \A c \in DOMAIN rooms' : rooms'[c].viewer # PageSocket
         /\ \E i \in 1 .. Len(emitted') : emitted'[i].ev = "viewer-disconnected"]_vars

====
